---------------------------- MODULE Spec2Model ----------------------------
(***************************************************************************)
(* The duration aggregation of the HIK report scripts (HIK.py and          *)
(* hik_u17.py): the match analysis page (per-round Active/Dead sums, the   *)
(* "All rounds" division, the percentage split, the phase-of-play pies)    *)
(* and the training visualizations (block durations, category totals, the  *)
(* per-block category totals by index range, by parent reference and by    *)
(* label containment).                                                     *)
(*                                                                         *)
(* A table is a sequence of rows; a row is a record whose fields are the   *)
(* table's columns.  A pandas Series is a function from its index to       *)
(* values.  Numbers that the scripts divide are kept as fractions          *)
(* [n |-> numerator, d |-> denominator], d = 0 standing for the float      *)
(* results nan (n = 0) and +/-inf (n = +/-1).                              *)
(***************************************************************************)
EXTENDS Integers, Sequences, FiniteSets, TLC

VARIABLES
    script,           \* "HIK" or "hik_u17": which script serves the request
    page,             \* "match" or "training"
    pc,               \* position of the request in the page function
    available_files,  \* the listing: round numbers of the listed "#<n>.csv"
    remote,           \* what load_csv_from_github returns per file
    round_choice,     \* [all |-> BOOLEAN, n |-> round]
    dfs,              \* the tables loaded in "All rounds" mode
    combined_df,      \* the table every match aggregation reads
    active_times,     \* Series ROUND -> fraction
    dead_times,       \* Series ROUND -> fraction
    n_files,          \* the divisor of the "All rounds" mode (0: not divided)
    total_times,      \* Series ROUND -> fraction
    active_pct,       \* sequence over rounds
    dead_pct,         \* sequence over rounds
    columns,          \* the columns of the table the request works on
    df,               \* the training table
    category_minutes, \* sequence of <<category, minutes>>
    data_by_block,    \* category -> sequence of minutes, one per block
    charts            \* the charts handed to st.plotly_chart, in order

vars == <<script, page, pc, available_files, remote, round_choice, dfs,
          combined_df, active_times, dead_times, n_files, total_times,
          active_pct, dead_pct, columns, df, category_minutes, data_by_block,
          charts>>

---------------------------------------------------------------------------
(* Bounds of the model *)

\* files the listing can hold, and rounds that can be selected
MaxFiles == 2
\* events in all the tables of one match request together
MaxEvents == 2
\* rows of a training table
MaxRows == 3

---------------------------------------------------------------------------
(* Arithmetic on fractions: Python / numpy float division *)

Abs(i) == IF i < 0 THEN 0 - i ELSE i

Sign(i) == IF i > 0 THEN 1 ELSE IF i < 0 THEN 0 - 1 ELSE 0

RECURSIVE GCD(_, _)
GCD(a, b) == IF b = 0 THEN a ELSE GCD(b, a % b)

\* the fraction n / d in lowest terms, d > 0
Frac(n, d) ==
    LET g == GCD(Abs(n), Abs(d))
    IN [n |-> Sign(d) * (n \div g), d |-> Abs(d) \div g]

Rat(x) == [n |-> x, d |-> 1]

NaN == [n |-> 0, d |-> 0]

Inf(sign) == [n |-> sign, d |-> 0]

IsFinite(x) == x.d # 0

\* sum and integer multiple of finite fractions
RAdd(a, b) == Frac(a.n * b.d + b.n * a.d, a.d * b.d)

RMul(k, a) == Frac(k * a.n, a.d)

\* a / b for finite a and b; a numpy scalar divided by zero is nan or inf,
\* with a warning and no exception
FDiv(a, b) ==
    IF b.n = 0
    THEN IF a.n = 0 THEN NaN ELSE Inf(Sign(a.n))
    ELSE Frac(a.n * b.d, a.d * b.n)

---------------------------------------------------------------------------
(* Sequences *)

RECURSIVE SumSeq(_)
SumSeq(s) == IF s = <<>> THEN 0 ELSE Head(s) + SumSeq(Tail(s))

SeqsUpTo(S, k) == UNION {[1..m -> S] : m \in 0..k}

\* Series.get(key, default)
Get(series, key, default) ==
    IF key \in DOMAIN series THEN series[key] ELSE default

\* sorted(values): ascending sequence of a set of integers
RECURSIVE sorted(_)
sorted(S) ==
    IF S = {} THEN <<>>
    ELSE LET m == CHOOSE x \in S : \A y \in S : x <= y
         IN <<m>> \o sorted(S \ {m})

---------------------------------------------------------------------------
(* Taxonomy of the match page *)

sequence_codes ==
    <<"Build Up", "Breakthrough", "Afslutningsspillet", "Off Transition",
      "Defend the box", "Low", "Medium", "High", "Def Transition">>

on_ball_codes == <<"Build Up", "Breakthrough", "Afslutningsspillet">>

off_ball_codes == <<"Defend the box", "Low", "Medium", "High", "Def Transition">>

Range(s) == {s[i] : i \in DOMAIN s}

---------------------------------------------------------------------------
(* Inputs *)

\* <<start, end>> of the events the inputs are built from: a long and a
\* short interval, an empty one, and one that ends before it starts
Intervals == {<<0, 2>>, <<1, 1>>, <<2, 1>>}

MatchCodes == {"Active", "Dead", "Build Up", "Breakthrough", "Low"}

MatchEvents ==
    {[code |-> c, start |-> t[1], end |-> t[2]] : c \in MatchCodes, t \in Intervals}

\* the events of a request over several files
SequenceEvents ==
    {e \in MatchEvents : e.code \in {"Active", "Dead"}}
        \cup {[code |-> "Build Up", start |-> 0, end |-> 2]}

NoTable == [ok |-> FALSE, rows |-> <<>>]

Loaded(rows) == [ok |-> TRUE, rows |-> rows]

\* the listing names the files "#1.csv" .. "#n.csv"
Listing(n) == [i \in 1..n |-> i]

NoSeries == <<>>

---------------------------------------------------------------------------
(* load_csv_from_github: the parsed table, or None when read_csv raised.   *)
(* Nothing in it looks at the values of start and end.                     *)

load_csv_from_github(fetch, file) == fetch[file]

\* df[column] = values: the column is added, or overwritten
SetColumn(rows, column, values) ==
    [i \in DOMAIN rows |-> (column :> values[i]) @@ rows[i]]

\* df["ROUND"] = r
WithRound(rows, r) == SetColumn(rows, "ROUND", [i \in DOMAIN rows |-> r])

\* pd.concat(dfs, ignore_index=True)
RECURSIVE concat(_)
concat(tables) ==
    IF tables = <<>> THEN <<>> ELSE Head(tables) \o concat(Tail(tables))

\* the for loop as an all-or-nothing load: one failed file empties the list
LoadEach_AllOrNothing(files, fetch) ==
    IF \A i \in DOMAIN files : load_csv_from_github(fetch, files[i]).ok
    THEN [i \in DOMAIN files |->
            WithRound(load_csv_from_github(fetch, files[i]).rows, files[i])]
    ELSE <<>>

\* the for loop over available_files: the tables that loaded, each tagged
RECURSIVE LoadEach(_, _)
LoadEach(files, fetch) ==
    IF files = <<>> THEN <<>>
    ELSE LET t == load_csv_from_github(fetch, Head(files))
             rest == LoadEach(Tail(files), fetch)
         IN IF t.ok THEN <<WithRound(t.rows, Head(files))>> \o rest ELSE rest

---------------------------------------------------------------------------
(* compute_sequence_time *)

Duration(row) == row.end - row.start

\* table["end"] - table["start"]
Durations(table) == [i \in DOMAIN table |-> Duration(table[i])]

\* seq_df.groupby("ROUND")["DURATION"].sum(): one entry per round that has
\* a row in seq_df
GroupSum(seq_df) ==
    [g \in {seq_df[i].ROUND : i \in DOMAIN seq_df} |->
        SumSeq(Durations(SelectSeq(seq_df, LAMBDA row : row.ROUND = g)))]

\* the filter on the code left out
compute_sequence_time_AnyCode(table, sequence_type) ==
    LET sums == GroupSum(table)
    IN [g \in DOMAIN sums |-> Rat(sums[g])]

compute_sequence_time(table, sequence_type) ==
    LET seq_df == SelectSeq(table, LAMBDA row : row.code = sequence_type)
        sums == GroupSum(seq_df)
    IN [g \in DOMAIN sums |-> Rat(sums[g])]

\* series / k
SeriesDiv(series, k) == [g \in DOMAIN series |-> FDiv(series[g], Rat(k))]

\* the divisor of the "All rounds" mode
NFiles(listing, loaded) == Len(listing)

\* sorted(combined_df["ROUND"].unique())
Rounds(table) == sorted({table[i].ROUND : i \in DOMAIN table})

\* active_times + dead_times: a round missing on one side is missing
SeriesAdd_NoFill(a, b) ==
    [g \in DOMAIN a \cap DOMAIN b |-> RAdd(a[g], b[g])]

\* active_times.add(dead_times, fill_value=0)
SeriesAdd(a, b) ==
    [g \in DOMAIN a \cup DOMAIN b |-> RAdd(Get(a, g, Rat(0)), Get(b, g, Rat(0)))]

\* [100 * part.get(r, 0) / total.get(r, 1) for r in rounds]
Percent(part, total, rounds) ==
    [i \in DOMAIN rounds |->
        FDiv(RMul(100, Get(part, rounds[i], Rat(0))), Get(total, rounds[i], Rat(1)))]

\* [series.get(r, 0) / 60 for r in rounds]
Minutes(series, rounds) ==
    [i \in DOMAIN rounds |-> FDiv(Get(series, rounds[i], Rat(0)), Rat(60))]

---------------------------------------------------------------------------
(* The phase-of-play distributions *)

\* the order of Python's string comparison on the labels of the model
Alphabetical ==
    <<"Active", "Afslutningsspillet", "Breakthrough", "Build Up", "Dead",
      "Def Transition", "Defend the box", "High", "Low", "Medium",
      "Off Transition">>

\* groupby(sort=False): the codes in the order of their first row
RECURSIVE GroupKeys_Unsorted(_)
GroupKeys_Unsorted(table) ==
    IF table = <<>> THEN <<>>
    ELSE <<table[1].code>> \o
         GroupKeys_Unsorted(SelectSeq(Tail(table), LAMBDA row : row.code # table[1].code))

\* the index of table.groupby("code"): the codes present, sorted
GroupKeys(table) ==
    SelectSeq(Alphabetical, LAMBDA c : \E i \in DOMAIN table : table[i].code = c)

\* df[df["code"].isin(codes)]
isin(table, codes) == SelectSeq(table, LAMBDA row : row.code \in Range(codes))

\* the first duration instead of the sum
TotalMinutes_First(table) ==
    IF table = <<>> THEN Rat(0) ELSE FDiv(Rat(Duration(table[1])), Rat(60))

\* table["DURATION"].sum() / 60
TotalMinutes(table) == FDiv(Rat(SumSeq(Durations(table))), Rat(60))

\* table.groupby("code")["DURATION"].sum() / 60, as go.Pie takes it:
\* labels = distribution.index, values = distribution.values
Distribution(table, codes) ==
    LET sel == isin(table, codes)
        keys == GroupKeys(sel)
    IN [labels |-> keys,
        values |-> [i \in DOMAIN keys |->
                      TotalMinutes(SelectSeq(sel, LAMBDA row : row.code = keys[i]))]]

Pie(title, dist) ==
    [kind |-> "pie", title |-> title, labels |-> dist.labels, values |-> dist.values]

---------------------------------------------------------------------------
(* Taxonomy of the training page *)

blocks ==
    <<"Warm Up (S)", "Block 1 (S)", "Block 2 (S)", "Block 3 (S)", "Block 4 (S)",
      "Block 5 (S)", "Individual (S)">>

categories == <<"Organization", "Coaching", "Active">>

\* The characters of a label, in pieces no pattern of the scripts splits.
Tokens(label) ==
    CASE label = "Warm Up (S)" -> <<"Warm Up ", "(", "S", ")">>
      [] label = "Block 1 (S)" -> <<"Block 1 ", "(", "S", ")">>
      [] label = "Block 2 (S)" -> <<"Block 2 ", "(", "S", ")">>
      [] label = "Block 3 (S)" -> <<"Block 3 ", "(", "S", ")">>
      [] label = "Block 4 (S)" -> <<"Block 4 ", "(", "S", ")">>
      [] label = "Block 5 (S)" -> <<"Block 5 ", "(", "S", ")">>
      [] label = "Individual (S)" -> <<"Individual ", "(", "S", ")">>
      [] label = "Session (S)" -> <<"Session ", "(", "S", ")">>
      [] label = "Block 1 (S) Coaching" ->
            <<"Block 1 ", "(", "S", ")", " ", "Coaching">>
      [] label = "Block 1 S Coaching" -> <<"Block 1 ", "S", " ", "Coaching">>
      [] OTHER -> <<label>>

\* needle occurs in hay as a contiguous run
IsInfix(needle, hay) ==
    \E k \in 0..(Len(hay) - Len(needle)) :
        \A j \in 1..Len(needle) : hay[k + j] = needle[j]

\* re.search(pat, text) for the patterns of the scripts: "(" and ")" of a
\* pattern open and close a group and match no character
re_search(pat, text) ==
    IsInfix(SelectSeq(Tokens(pat), LAMBDA t : t \notin {"(", ")"}), Tokens(text))

\* df["code"].str.contains(pat): regex=True is the default
str_contains(text, pat) == re_search(pat, text)

\* sum(values) of fractions
RECURSIVE RSumSeq(_)
RSumSeq(s) == IF s = <<>> THEN Rat(0) ELSE RAdd(Head(s), RSumSeq(Tail(s)))

\* df[df["code"] == label]: duration_sec summed, / 60
LabelMinutes(table, label) ==
    TotalMinutes(SelectSeq(table, LAMBDA row : row.code = label))

\* df.index[df["code"] == label].tolist(): positions counted from 0
Indices(table, label) ==
    sorted({i - 1 : i \in {j \in DOMAIN table : table[j].code = label}})

\* df.iloc[a:b]
iloc(table, a, b) == SubSeq(table, a + 1, b)

\* the slice always runs to the end of the table
EndIdx_ToEnd(table, i) == Len(table)

\* end_idx of block number i (counted from 1)
EndIdx(table, i) ==
    IF i + 1 <= Len(blocks)
    THEN LET next_block_indices == Indices(table, blocks[i + 1])
         IN IF next_block_indices # <<>> THEN next_block_indices[1] ELSE Len(table)
    ELSE Len(table)

\* the slice starts at the top when the block before has no marker
StartIdx_TopAfterMissing(table, i) ==
    IF i > 1 /\ Indices(table, blocks[i - 1]) = <<>>
    THEN 0
    ELSE Indices(table, blocks[i])[1]

\* start_idx of block number i, whose marker is in the table
StartIdx(table, i) == Indices(table, blocks[i])[1]

\* the per-block minutes of one category, HIK.py: the rows from the block's
\* first marker up to the next block's first marker
IndexRangeMinutes(table, i, cat) ==
    IF Indices(table, blocks[i]) = <<>>
    THEN Rat(0)
    ELSE LET block_df == iloc(table, StartIdx(table, i), EndIdx(table, i))
         IN LabelMinutes(block_df, cat)

\* list(d.keys()) and list(d.values()) of a dict kept as <<key, value>> pairs
Keys(d) == [k \in DOMAIN d |-> d[k][1]]

Values(d) == [k \in DOMAIN d |-> d[k][2]]

\* category_minutes: one entry per category, in the order of the loop
CategoryTotals(table) ==
    [k \in DOMAIN categories |-> <<categories[k], LabelMinutes(table, categories[k])>>]

IndexRangeBlocks(table) ==
    [cat \in Range(categories) |->
        [i \in DOMAIN blocks |-> IndexRangeMinutes(table, i, cat)]]

\* hik_u17.py, first grouped chart: parent == block and code == cat
ParentBlocks(table) ==
    [cat \in Range(categories) |->
        [i \in DOMAIN blocks |->
            TotalMinutes(SelectSeq(table,
                LAMBDA row : row.parent = blocks[i] /\ row.code = cat))]]

\* hik_u17.py, second grouped chart: code contains block and contains cat
ContainsBlocks(table) ==
    [cat \in Range(categories) |->
        [i \in DOMAIN blocks |->
            TotalMinutes(SelectSeq(table,
                LAMBDA row : str_contains(row.code, blocks[i])
                             /\ str_contains(row.code, cat)))]]

GroupedBar(data) ==
    [kind |-> "bar", title |-> "Organization, Coaching, and Active Time per Block",
     x |-> blocks, traces |-> [k \in DOMAIN categories |->
                                 [name |-> categories[k], y |-> data[categories[k]]]]]

\* <<start, end>> of the training events
TrainIntervals == {<<0, 2>>, <<2, 3>>}

IndexCodes == {"Block 1 (S)", "Block 2 (S)", "Individual (S)", "Coaching", "Active"}

NestedCodes == {"Coaching", "Block 1 (S) Coaching", "Block 1 S Coaching"}

\* a cell of the parent column: a block marker, or empty (NaN)
Parents == {"", "Block 1 (S)"}

\* training tables without a parent column
PlainEvents ==
    {[code |-> c, start |-> t[1], end |-> t[2]] : c \in IndexCodes, t \in TrainIntervals}

\* training tables with a parent column
NestedEvents ==
    {[code |-> c, start |-> t[1], end |-> t[2], parent |-> q] :
        c \in NestedCodes, t \in TrainIntervals, q \in Parents}

---------------------------------------------------------------------------
\* a match request over several listed files, each of which loads or not;
\* the tables hold Active and Dead events and one event of another code
SeveralFiles ==
    \E n \in 0..MaxFiles :
        /\ available_files = Listing(n)
        /\ \E s \in SeqsUpTo(SequenceEvents, MaxEvents) :
           \E cut \in [0..MaxFiles -> 0..Len(s)] :
           \E okay \in [1..MaxFiles -> BOOLEAN] :
              /\ cut[0] = 0
              /\ cut[MaxFiles] = Len(s)
              /\ \A i \in 1..MaxFiles :
                    /\ cut[i - 1] <= cut[i]
                    /\ ~okay[i] => cut[i] = cut[i - 1]
                    /\ i > n => ~okay[i]
              /\ remote = [i \in 1..MaxFiles |->
                             IF okay[i]
                             THEN Loaded(SubSeq(s, cut[i - 1] + 1, cut[i]))
                             ELSE NoTable]
        /\ round_choice \in
             {[all |-> TRUE, n |-> 0]} \cup {[all |-> FALSE, n |-> r] : r \in 1..MaxFiles}

\* a match request over one listed file that holds events of any code
OneFile ==
    /\ available_files = Listing(1)
    /\ \E s \in SeqsUpTo(MatchEvents, MaxEvents) :
          remote = [i \in 1..MaxFiles |-> IF i = 1 THEN Loaded(s) ELSE NoTable]
    /\ round_choice \in {[all |-> TRUE, n |-> 0], [all |-> FALSE, n |-> 1]}

MatchInit ==
    /\ script = "hik_u17"
    /\ page = "match"
    /\ pc = "start"
    /\ SeveralFiles \/ OneFile
    /\ dfs = <<>>
    /\ combined_df = <<>>
    /\ active_times = NoSeries
    /\ dead_times = NoSeries
    /\ n_files = 0
    /\ total_times = NoSeries
    /\ active_pct = <<>>
    /\ dead_pct = <<>>
    /\ columns = {"code", "start", "end"}
    /\ df = <<>>
    /\ category_minutes = <<>>
    /\ data_by_block = <<>>
    /\ charts = <<>>

\* a training request: the listing holds one file or none, which loads or not
TrainingInit ==
    /\ script \in {"HIK", "hik_u17"}
    /\ page = "training"
    /\ pc = "start"
    /\ \/ /\ available_files \in {Listing(0), Listing(1)}
          /\ remote = <<NoTable>>
          /\ columns = {}
       \/ /\ available_files = Listing(1)
          /\ script = "HIK"
          /\ columns = {"code", "start", "end"}
          /\ \E t \in SeqsUpTo(PlainEvents, MaxRows) : remote = <<Loaded(t)>>
       \/ /\ available_files = Listing(1)
          /\ script = "hik_u17"
          /\ columns = {"code", "start", "end"}
          /\ \E t \in SeqsUpTo(PlainEvents, 1) : remote = <<Loaded(t)>>
       \/ /\ available_files = Listing(1)
          /\ script = "hik_u17"
          /\ columns = {"code", "start", "end", "parent"}
          /\ \E t \in SeqsUpTo(NestedEvents, MaxRows) : remote = <<Loaded(t)>>
    /\ round_choice = [all |-> FALSE, n |-> 1]
    /\ dfs = <<>>
    /\ combined_df = <<>>
    /\ active_times = NoSeries
    /\ dead_times = NoSeries
    /\ n_files = 0
    /\ total_times = NoSeries
    /\ active_pct = <<>>
    /\ dead_pct = <<>>
    /\ df = <<>>
    /\ category_minutes = <<>>
    /\ data_by_block = <<>>
    /\ charts = <<>>

Init == MatchInit \/ TrainingInit

\* "All rounds" without the two early returns: an empty listing or an
\* empty list of tables goes on to the sums
LoadAllRounds_NoAbort ==
    /\ page = "match" /\ pc = "start" /\ round_choice.all
    /\ dfs' = LoadEach(available_files, remote)
    /\ combined_df' = concat(dfs')
    /\ columns' = columns \cup {"ROUND"}
    /\ pc' = "loaded"
    /\ UNCHANGED <<script, page, available_files, remote, round_choice,
                   active_times, dead_times, n_files, total_times, active_pct,
                   dead_pct, df, category_minutes, data_by_block, charts>>

\* match_analysis_page, "All rounds": list, load each file, concatenate
LoadAllRounds ==
    /\ page = "match" /\ pc = "start" /\ round_choice.all
    /\ IF available_files = <<>>
       THEN /\ pc' = "returned"
            /\ UNCHANGED <<dfs, combined_df, columns>>
       ELSE LET loaded == LoadEach(available_files, remote)
            IN /\ dfs' = loaded
               /\ IF loaded # <<>>
                  THEN /\ combined_df' = concat(loaded)
                       /\ columns' = columns \cup {"ROUND"}
                       /\ pc' = "loaded"
                  ELSE /\ pc' = "returned"
                       /\ UNCHANGED <<combined_df, columns>>
    /\ UNCHANGED <<script, page, available_files, remote, round_choice,
                   active_times, dead_times, n_files, total_times, active_pct,
                   dead_pct, df, category_minutes, data_by_block, charts>>

\* match_analysis_page, one round: load "#<round>.csv"
LoadSingleRound ==
    /\ page = "match" /\ pc = "start" /\ ~round_choice.all
    /\ LET t == load_csv_from_github(remote, round_choice.n)
       IN IF t.ok
          THEN /\ combined_df' = WithRound(t.rows, round_choice.n)
               /\ columns' = columns \cup {"ROUND"}
               /\ pc' = "loaded"
          ELSE /\ pc' = "returned"
               /\ UNCHANGED <<combined_df, columns>>
    /\ UNCHANGED <<script, page, available_files, remote, round_choice, dfs,
                   active_times, dead_times, n_files, total_times, active_pct,
                   dead_pct, df, category_minutes, data_by_block, charts>>

\* active_times / dead_times = compute_sequence_time(combined_df, ...)
ComputeSequenceTimes ==
    /\ page = "match" /\ pc = "loaded"
    /\ active_times' = compute_sequence_time(combined_df, "Active")
    /\ dead_times' = compute_sequence_time(combined_df, "Dead")
    /\ pc' = "summed"
    /\ UNCHANGED <<script, page, available_files, remote, round_choice, dfs,
                   combined_df, n_files, total_times, active_pct, dead_pct, columns,
                   df, category_minutes, data_by_block, charts>>

\* if round_choice == "All rounds": divide both series by n_files
NormalizeAllRounds ==
    /\ page = "match" /\ pc = "summed" /\ round_choice.all
    /\ n_files' = NFiles(available_files, dfs)
    /\ active_times' = SeriesDiv(active_times, n_files')
    /\ dead_times' = SeriesDiv(dead_times, n_files')
    /\ pc' = "normalized"
    /\ UNCHANGED <<script, page, available_files, remote, round_choice, dfs,
                   combined_df, total_times, active_pct, dead_pct, columns, df,
                   category_minutes, data_by_block, charts>>

\* fig1: Active and Dead minutes per round
RenderFig1 ==
    /\ page = "match"
    /\ pc = "normalized" \/ (pc = "summed" /\ ~round_choice.all)
    /\ LET rounds == Rounds(combined_df)
       IN charts' = Append(charts,
            [kind |-> "bar", title |-> "Total Active vs Dead",
             x |-> rounds,
             active |-> Minutes(active_times, rounds),
             dead |-> Minutes(dead_times, rounds)])
    /\ pc' = "fig1"
    /\ UNCHANGED <<script, page, available_files, remote, round_choice, dfs,
                   combined_df, active_times, dead_times, n_files, total_times,
                   active_pct, dead_pct, columns, df, category_minutes, data_by_block>>

\* fig2: the percentage split per round
RenderFig2 ==
    /\ page = "match" /\ pc = "fig1"
    /\ LET rounds == Rounds(combined_df)
           total == SeriesAdd(active_times, dead_times)
       IN /\ total_times' = total
          /\ active_pct' = Percent(active_times, total, rounds)
          /\ dead_pct' = Percent(dead_times, total, rounds)
          /\ charts' = Append(charts,
               [kind |-> "bar", title |-> "Percentage of Active vs Dead",
                x |-> rounds, active |-> active_pct', dead |-> dead_pct'])
    /\ pc' = "fig2"
    /\ UNCHANGED <<script, page, available_files, remote, round_choice, dfs,
                   combined_df, active_times, dead_times, n_files, columns, df,
                   category_minutes, data_by_block>>

\* active_time_distribution(combined_df): works on a copy
ActiveTimeDistribution ==
    /\ page = "match" /\ pc = "fig2"
    /\ charts' = Append(charts,
           Pie("Active Time Distribution", Distribution(combined_df, sequence_codes)))
    /\ pc' = "active_dist"
    /\ UNCHANGED <<script, page, available_files, remote, round_choice, dfs,
                   combined_df, active_times, dead_times, n_files, total_times,
                   active_pct, dead_pct, columns, df, category_minutes, data_by_block>>

\* on_off_total_time(combined_df): writes DURATION into the table it is given
OnOffTotalTime ==
    /\ page = "match" /\ pc = "active_dist"
    /\ combined_df' = SetColumn(combined_df, "DURATION", Durations(combined_df))
    /\ columns' = columns \cup {"DURATION"}
    /\ charts' = Append(charts,
           [kind |-> "pie", title |-> "On vs Off the Ball Total Time",
            labels |-> <<"On the Ball", "Off the Ball">>,
            values |-> <<TotalMinutes(isin(combined_df', on_ball_codes)),
                         TotalMinutes(isin(combined_df', off_ball_codes))>>])
    /\ pc' = "on_off"
    /\ UNCHANGED <<script, page, available_files, remote, round_choice, dfs,
                   active_times, dead_times, n_files, total_times, active_pct,
                   dead_pct, df, category_minutes, data_by_block>>

\* on_ball_distribution(combined_df)
OnBallDistribution ==
    /\ page = "match" /\ pc = "on_off"
    /\ combined_df' = SetColumn(combined_df, "DURATION", Durations(combined_df))
    /\ columns' = columns \cup {"DURATION"}
    /\ charts' = Append(charts,
           Pie("On the Ball Time Distribution", Distribution(combined_df', on_ball_codes)))
    /\ pc' = "on_dist"
    /\ UNCHANGED <<script, page, available_files, remote, round_choice, dfs,
                   active_times, dead_times, n_files, total_times, active_pct,
                   dead_pct, df, category_minutes, data_by_block>>

\* off_ball_distribution(combined_df)
OffBallDistribution ==
    /\ page = "match" /\ pc = "on_dist"
    /\ combined_df' = SetColumn(combined_df, "DURATION", Durations(combined_df))
    /\ columns' = columns \cup {"DURATION"}
    /\ charts' = Append(charts,
           Pie("Off the Ball Time Distribution", Distribution(combined_df', off_ball_codes)))
    /\ pc' = "done"
    /\ UNCHANGED <<script, page, available_files, remote, round_choice, dfs,
                   active_times, dead_times, n_files, total_times, active_pct,
                   dead_pct, df, category_minutes, data_by_block>>

\* training_analysis_page: list, choose the file, load it
TrainingLoad ==
    /\ page = "training" /\ pc = "start"
    /\ IF available_files = <<>>
       THEN /\ pc' = "returned"
            /\ UNCHANGED df
       ELSE LET t == load_csv_from_github(remote, available_files[1])
            IN IF t.ok
               THEN /\ df' = t.rows
                    /\ pc' = "loaded"
               ELSE /\ pc' = "returned"
                    /\ UNCHANGED df
    /\ UNCHANGED <<script, page, available_files, remote, round_choice, dfs,
                   combined_df, active_times, dead_times, n_files, total_times,
                   active_pct, dead_pct, columns, category_minutes,
                   data_by_block, charts>>

\* training_visualizations: the block pie, and blocks total against session
BlockDurations ==
    /\ page = "training" /\ pc = "loaded"
    /\ LET durations_minutes == [i \in DOMAIN blocks |-> LabelMinutes(df, blocks[i])]
           session_minutes == LabelMinutes(df, "Session (S)")
       IN charts' = charts \o
            <<[kind |-> "pie", title |-> "Training Time Distribution by Block",
               labels |-> blocks, values |-> durations_minutes],
              [kind |-> "bar", title |-> "Total Blocks Time vs Session Time",
               x |-> <<"Blocks Total", "Session (S)">>,
               y |-> <<RSumSeq(durations_minutes), session_minutes>>]>>
    /\ pc' = "blocks"
    /\ UNCHANGED <<script, page, available_files, remote, round_choice, dfs,
                   combined_df, active_times, dead_times, n_files, total_times,
                   active_pct, dead_pct, columns, df, category_minutes,
                   data_by_block>>

\* training_visualizations: Organization vs Coaching vs Active
CategoryMinutes ==
    /\ page = "training" /\ pc = "blocks"
    /\ category_minutes' = CategoryTotals(df)
    /\ charts' = Append(charts,
           [kind |-> "bar", title |-> "Organization vs Coaching vs Active Time",
            x |-> Keys(category_minutes'),
            y |-> Values(category_minutes')])
    /\ pc' = "categories"
    /\ UNCHANGED <<script, page, available_files, remote, round_choice, dfs,
                   combined_df, active_times, dead_times, n_files, total_times,
                   active_pct, dead_pct, columns, df, data_by_block>>

\* HIK.py: the grouped chart per block, by index range
IndexRangeGrouped ==
    /\ page = "training" /\ pc = "categories" /\ script = "HIK"
    /\ data_by_block' = IndexRangeBlocks(df)
    /\ charts' = Append(charts, GroupedBar(data_by_block'))
    /\ pc' = "done"
    /\ UNCHANGED <<script, page, available_files, remote, round_choice, dfs,
                   combined_df, active_times, dead_times, n_files, total_times,
                   active_pct, dead_pct, columns, df, category_minutes>>

\* hik_u17.py: the first grouped chart, by parent; df["parent"] raises
\* KeyError on a table without that column
ParentGrouped ==
    /\ page = "training" /\ pc = "categories" /\ script = "hik_u17"
    /\ IF "parent" \in columns
       THEN /\ data_by_block' = ParentBlocks(df)
            /\ charts' = Append(charts, GroupedBar(data_by_block'))
            /\ pc' = "by_parent"
       ELSE /\ pc' = "KeyError"
            /\ UNCHANGED <<data_by_block, charts>>
    /\ UNCHANGED <<script, page, available_files, remote, round_choice, dfs,
                   combined_df, active_times, dead_times, n_files, total_times,
                   active_pct, dead_pct, columns, df, category_minutes>>

\* hik_u17.py: data_by_block is built anew, by containment, and charted again
ContainsGrouped ==
    /\ page = "training" /\ pc = "by_parent"
    /\ data_by_block' = ContainsBlocks(df)
    /\ charts' = Append(charts, GroupedBar(data_by_block'))
    /\ pc' = "done"
    /\ UNCHANGED <<script, page, available_files, remote, round_choice, dfs,
                   combined_df, active_times, dead_times, n_files, total_times,
                   active_pct, dead_pct, columns, df, category_minutes>>

Next ==
    \/ LoadAllRounds
    \/ LoadSingleRound
    \/ ComputeSequenceTimes
    \/ NormalizeAllRounds
    \/ RenderFig1
    \/ RenderFig2
    \/ ActiveTimeDistribution
    \/ OnOffTotalTime
    \/ OnBallDistribution
    \/ OffBallDistribution
    \/ TrainingLoad
    \/ BlockDurations
    \/ CategoryMinutes
    \/ IndexRangeGrouped
    \/ ParentGrouped
    \/ ContainsGrouped

Spec == Init /\ [][Next]_vars

---------------------------------------------------------------------------
(* What the claims speak of, stated on the raw events *)

RECURSIVE SumOfDurations(_, _)
SumOfDurations(table, I) ==
    IF I = {} THEN 0
    ELSE LET i == CHOOSE j \in I : TRUE
         IN (table[i].end - table[i].start) + SumOfDurations(table, I \ {i})

EventsOf(table, label, g) ==
    {i \in DOMAIN table : table[i].code = label /\ table[i].ROUND = g}

RawTotal(label, g) == SumOfDurations(combined_df, EventsOf(combined_df, label, g))

GroupKeysAsked == 1..(MaxFiles + 1)

Permute(table, p) == [i \in DOMAIN table |-> table[p[i]]]

Orders(table) == Permutations(DOMAIN table)

\* C1: after compute_sequence_time, for every group key g (whether it has
\* rows or not) the Active and the Dead total looked up with default 0 is
\* the sum of end - start over exactly the rows of that code in round g;
\* the step is always able to run on a loaded table.
C1_SumByLabel ==
    /\ (page = "match" /\ pc = "loaded") => ENABLED ComputeSequenceTimes
    /\ (page = "match" /\ pc = "summed") =>
          \A g \in GroupKeysAsked :
             /\ Get(active_times, g, Rat(0)) = Rat(RawTotal("Active", g))
             /\ Get(dead_times, g, Rat(0)) = Rat(RawTotal("Dead", g))

\* Active 0..2 and Dead in round 1 give Active = {1: 2}
C1_Witness ==
    /\ page = "match" /\ pc = "summed"
    /\ \E i, j \in DOMAIN combined_df :
          /\ combined_df[i].code = "Active" /\ combined_df[i].ROUND = 1
          /\ combined_df[i].start = 0 /\ combined_df[i].end = 2
          /\ combined_df[j].code = "Dead" /\ combined_df[j].ROUND = 1
    /\ active_times = (1 :> Rat(2))
    /\ Get(active_times, 2, Rat(0)) = Rat(0)

\* C2: in "All rounds" mode the divisor is the number of tables that were
\* loaded and concatenated.
C2_DivisorCountsContributingSessions ==
    (page = "match" /\ pc = "normalized") => n_files = Len(dfs)

PercentagesComputed == page = "match" /\ pc = "fig2"

Denominator(g) == RawTotal("Active", g) + RawTotal("Dead", g)

\* C3: for every round whose Active total + Dead total is above 0, the
\* Active and the Dead percentage add up to 100, divided or not.
C3_PercentagesSumTo100 ==
    PercentagesComputed =>
        \A i \in DOMAIN active_pct :
            Denominator(Rounds(combined_df)[i]) > 0 =>
                /\ IsFinite(active_pct[i]) /\ IsFinite(dead_pct[i])
                /\ RAdd(active_pct[i], dead_pct[i]) = Rat(100)

\* "All rounds" over two listed files, a round with Active and Dead time
C3_Witness ==
    /\ PercentagesComputed /\ round_choice.all /\ n_files = 2
    /\ \E i \in DOMAIN active_pct :
          /\ RawTotal("Active", Rounds(combined_df)[i]) > 0
          /\ RawTotal("Dead", Rounds(combined_df)[i]) > 0
          /\ active_pct[i] = Rat(50)

\* C4: for every round whose denominator is zero, both percentages are 0.
C4_ZeroDenominatorGivesZeroPercent ==
    PercentagesComputed =>
        \A i \in DOMAIN active_pct :
            Denominator(Rounds(combined_df)[i]) = 0 =>
                active_pct[i] = Rat(0) /\ dead_pct[i] = Rat(0)

\* C10: no row with end < start is in a table that loaded, so none is summed.
C10_NoNegativeDurationSummed ==
    (page = "match" /\ pc = "summed") =>
        \A i \in DOMAIN combined_df :
            combined_df[i].code \in {"Active", "Dead"} =>
                combined_df[i].end - combined_df[i].start >= 0

---------------------------------------------------------------------------
(* The per-block totals *)

HasMarker(table, b) == \E j \in DOMAIN table : table[j].code = b

\* where the first row of code b stands, counted from 1
FirstRow(table, b) ==
    CHOOSE j \in DOMAIN table :
        table[j].code = b /\ \A k \in 1..(j - 1) : table[k].code # b

\* the rows from..(before - 1) whose code is cat, summed, in minutes
SliceMinutes(table, from, before, cat) ==
    Frac(SumOfDurations(table,
            {j \in DOMAIN table : from <= j /\ j < before /\ table[j].code = cat}),
         60)

IndexRangeDone == page = "training" /\ script = "HIK" /\ pc = "done"

SliceEnd(table, i) ==
    IF i < Len(blocks) /\ HasMarker(table, blocks[i + 1])
    THEN FirstRow(table, blocks[i + 1])
    ELSE Len(table) + 1

\* C6 as the spec has it: a marker that is not in the table has total zero
\* for every category, and the slice of its successor starts at the first
\* row of the table.
C6_NextSliceStartsAtZero ==
    IndexRangeDone =>
        \A i \in DOMAIN blocks : \A cat \in Range(categories) :
            ~HasMarker(df, blocks[i]) =>
                /\ data_by_block[cat][i] = Rat(0)
                /\ (i < Len(blocks) /\ HasMarker(df, blocks[i + 1])) =>
                      data_by_block[cat][i + 1] =
                          SliceMinutes(df, 1, SliceEnd(df, i + 1), cat)

\* C6, amended: a marker that is not in the table has total zero for every
\* category, and the slice of its successor starts at the successor's own
\* first row.
C6_NextSliceStartsAtOwnMarker ==
    IndexRangeDone =>
        \A i \in DOMAIN blocks : \A cat \in Range(categories) :
            ~HasMarker(df, blocks[i]) =>
                /\ data_by_block[cat][i] = Rat(0)
                /\ (i < Len(blocks) /\ HasMarker(df, blocks[i + 1])) =>
                      data_by_block[cat][i + 1] =
                          SliceMinutes(df, FirstRow(df, blocks[i + 1]),
                                       SliceEnd(df, i + 1), cat)

\* no Warm Up marker; a Coaching row stands before the Block 1 marker
C6_Witness ==
    /\ IndexRangeDone
    /\ ~HasMarker(df, "Warm Up (S)")
    /\ Len(df) = 3
    /\ df[1].code = "Coaching" /\ df[2].code = "Block 1 (S)"
    /\ df[3].code = "Coaching"
    /\ data_by_block["Coaching"][1] = Rat(0)
    /\ data_by_block["Coaching"][2] = Frac(df[3].end - df[3].start, 60)

NestedDone == page = "training" /\ script = "hik_u17" /\ pc = "done"

\* the text holds the characters of the name
ContainsName(text, name) == IsInfix(Tokens(name), Tokens(text))

\* the block the claim attributes a row to for a category: by parent first,
\* else by the code containing the marker name and the category name
AttributedTo(row, b, cat) ==
    \/ row.parent = b /\ row.code = cat
    \/ /\ ~(row.parent \in Range(blocks) /\ row.code \in Range(categories))
       /\ ContainsName(row.code, b) /\ ContainsName(row.code, cat)

\* the two grouped charts of the request, the values of one category and block
GroupedValue(chart, k, i) == chart.traces[k].y[i]

\* C7: the per-block totals the request reports (the parent chart and the
\* containment chart together) are the sums over the rows attributed by
\* parent or else by containment, and the unscoped total of a category
\* counts every row of that code.
C7_ParentThenContainment ==
    NestedDone =>
        /\ \A k \in DOMAIN categories : \A i \in DOMAIN blocks :
              RAdd(GroupedValue(charts[Len(charts) - 1], k, i),
                   GroupedValue(charts[Len(charts)], k, i))
                = Frac(SumOfDurations(df,
                         {j \in DOMAIN df : AttributedTo(df[j], blocks[i], categories[k])}),
                       60)
        /\ \A k \in DOMAIN categories :
              category_minutes[k][2] =
                  Frac(SumOfDurations(df, {j \in DOMAIN df : df[j].code = categories[k]}), 60)

---------------------------------------------------------------------------
(* Order of the events *)

OnOffRendered == page = "match" /\ pc = "on_off"

\* C8: the on-ball and off-ball totals are the same for every reordering of
\* the rows, while the index-range chart is not: a Coaching row after the
\* Block 1 marker counts for Block 1, the same row before the marker does not.
C8_CategorySumOrderFree ==
    /\ OnOffRendered =>
          \A p \in Orders(combined_df) :
              charts[Len(charts)].values =
                  <<TotalMinutes(isin(Permute(combined_df, p), on_ball_codes)),
                    TotalMinutes(isin(Permute(combined_df, p), off_ball_codes))>>
    /\ LET marker == [code |-> "Block 1 (S)", start |-> 0, end |-> 2]
           coaching == [code |-> "Coaching", start |-> 2, end |-> 3]
       IN IndexRangeBlocks(<<marker, coaching>>)["Coaching"]
            # IndexRangeBlocks(<<coaching, marker>>)["Coaching"]

\* an on-ball and an off-ball row of different lengths in the table; and a
\* Coaching row counts for Block 1 after the marker, not before it
C8_Witness ==
    /\ OnOffRendered
    /\ Len(combined_df) = 2
    /\ combined_df[1].code = "Build Up" /\ combined_df[2].code = "Low"
    /\ combined_df[1].end - combined_df[1].start # combined_df[2].end - combined_df[2].start
    /\ IndexRangeBlocks(<<[code |-> "Block 1 (S)", start |-> 0, end |-> 2],
                           [code |-> "Coaching", start |-> 2, end |-> 3]>>)["Coaching"][2]
          = Frac(1, 60)

\* the place of a label in Python's string order
Rank(label) == CHOOSE k \in DOMAIN Alphabetical : Alphabetical[k] = label

IsSubsequenceOf(labels, declared) ==
    labels = SelectSeq(declared, LAMBDA c : c \in Range(labels))

PieOf(codes) ==
    IF pc = "active_dist" THEN codes = sequence_codes
    ELSE IF pc = "on_dist" THEN codes = on_ball_codes
    ELSE pc = "done" /\ codes = off_ball_codes

\* C9 as the spec has it: every category distribution lists its categories
\* in the declared order of the category set.
C9_DeclaredOrder ==
    /\ page = "match" =>
          \A codes \in {sequence_codes, on_ball_codes, off_ball_codes} :
              PieOf(codes) => IsSubsequenceOf(charts[Len(charts)].labels, codes)
    /\ (page = "training" /\ pc = "categories") =>
          charts[Len(charts)].x = categories

\* C9, amended: the distribution does not depend on the order of the rows;
\* a match pie lists the categories that have rows, in ascending string
\* order of the labels, and the training category chart lists the
\* categories in declared order.
C9_OrderOfDistribution ==
    /\ page = "match" =>
          \A codes \in {sequence_codes, on_ball_codes, off_ball_codes} :
              PieOf(codes) =>
                  LET labels == charts[Len(charts)].labels
                  IN /\ Range(labels) =
                          {combined_df[i].code : i \in DOMAIN combined_df} \cap Range(codes)
                     /\ \A a, b \in DOMAIN labels :
                          a < b => Rank(labels[a]) < Rank(labels[b])
                     /\ \A p \in Orders(combined_df) :
                          Distribution(Permute(combined_df, p), codes).labels = labels
    /\ (page = "training" /\ pc = "categories") =>
          /\ charts[Len(charts)].x = categories
          /\ \A p \in Orders(df) :
                Keys(CategoryTotals(Permute(df, p))) = categories

\* Build Up before Breakthrough in the table and in the declared order,
\* Breakthrough before Build Up in the pie
C9_Witness ==
    /\ page = "match" /\ pc = "active_dist"
    /\ Len(combined_df) = 2
    /\ combined_df[1].code = "Build Up" /\ combined_df[2].code = "Breakthrough"
    /\ charts[Len(charts)].labels = <<"Breakthrough", "Build Up">>

---------------------------------------------------------------------------
(* C11: failed loads and the outcome of a match report request *)

\* the session tables one match report request asks for
Requested ==
    IF round_choice.all THEN Range(available_files) ELSE {round_choice.n}

RequestedLoaded == {f \in Requested : load_csv_from_github(remote, f).ok}

\* the request went past loading: its aggregates are being produced
AggregatesProduced == page = "match" /\ pc \notin {"start", "returned"}

RequestFailed == page = "match" /\ pc = "returned"

\* C11 as stated: aggregates are produced only when every requested session
\* table loaded; one failed table fails the whole request
C11_NoPartialSuccess ==
    AggregatesProduced => RequestedLoaded = Requested

\* C11: a request fails, with no chart and no aggregate, exactly when none
\* of its session tables loaded; otherwise the aggregates are produced from
\* the tables that loaded, the failed ones being skipped
C11_FailsOnlyWhenNothingLoaded ==
    /\ RequestFailed =>
          /\ RequestedLoaded = {}
          /\ charts = <<>> /\ active_times = NoSeries /\ dead_times = NoSeries
    /\ AggregatesProduced =>
          /\ RequestedLoaded # {}
          /\ round_choice.all =>
                /\ Len(dfs) = Cardinality(RequestedLoaded)
                /\ Len(combined_df) = Len(concat(dfs))
                /\ \A i \in DOMAIN combined_df :
                      combined_df[i].ROUND \in RequestedLoaded

\* two files listed, the first failed and the second loaded with an event:
\* the sums are made from the second alone
C11_Witness ==
    /\ page = "match" /\ pc = "summed" /\ round_choice.all
    /\ Requested = {1, 2} /\ RequestedLoaded = {2}
    /\ combined_df # <<>>

---------------------------------------------------------------------------
(* C12: the division by the session count *)

\* the series have been divided by n_files
Divided ==
    /\ page = "match" /\ round_choice.all
    /\ pc \notin {"start", "returned", "loaded", "summed"}

\* C12: a request none of whose session tables loaded is aborted before
\* the division (nothing summed, n_files never taken, no chart), and
\* whenever the series were divided, the divisor and the number of loaded
\* tables are both at least 1
C12_DivisionOnlyWithSessions ==
    /\ (page = "match" /\ round_choice.all /\ RequestedLoaded = {}) =>
          /\ pc \in {"start", "returned"}
          /\ n_files = 0 /\ active_times = NoSeries /\ dead_times = NoSeries
          /\ charts = <<>>
    /\ Divided => n_files >= 1 /\ Len(dfs) >= 1

\* files are listed, none of them loaded, and the request was aborted
C12_Witness ==
    /\ RequestFailed /\ round_choice.all
    /\ available_files # <<>> /\ RequestedLoaded = {}

---------------------------------------------------------------------------
(* C13: the event table across the aggregation steps *)

\* the event table of the request as it is right after loading
TableAsLoaded ==
    IF round_choice.all
    THEN concat(LoadEach(available_files, remote))
    ELSE WithRound(load_csv_from_github(remote, round_choice.n).rows,
                   round_choice.n)

\* C13 as stated: after any number of the aggregation steps of a request the
\* shared event table has the rows, the columns and the values it had right
\* after loading
C13_EventTableUnchanged ==
    AggregatesProduced =>
        /\ combined_df = TableAsLoaded
        /\ columns = {"code", "start", "end", "ROUND"}

---------------------------------------------------------------------------
(* C14: the slices of the index-range chart *)

\* the rows in the slice of block number i, counted from 1
SliceRows(table, i) ==
    IF HasMarker(table, blocks[i])
    THEN {j \in DOMAIN table :
            StartIdx(table, i) < j /\ j <= EndIdx(table, i)}
    ELSE {}

\* a <= b for finite fractions
RLeq(a, b) == a.n * b.d <= b.n * a.d

\* C14 as stated: the slices of two different block markers share no row,
\* whatever markers are missing and in whatever order they stand, and so,
\* with no negative duration, the per-block totals of a category add up to
\* at most its total over the whole table
C14_SlicesDisjoint ==
    (IndexRangeDone /\ \A j \in DOMAIN df : Duration(df[j]) >= 0) =>
        /\ \A i, k \in DOMAIN blocks :
              i # k => SliceRows(df, i) \cap SliceRows(df, k) = {}
        /\ \A c \in DOMAIN categories :
              RLeq(RSumSeq(data_by_block[categories[c]]), category_minutes[c][2])

=============================================================================
